---- MODULE Spec2Model ----
(***************************************************************************)
(* Model of .github/scripts/ai_review.py: one run of main(), from the      *)
(* collection of the changed files to the process exit status.             *)
(*                                                                         *)
(* Text is a sequence of symbols.  A symbol is one character, except DOC,  *)
(* which stands for the serialisation json.dumps(doc) of the JSON value    *)
(* the model returned (a text of several characters without a backtick).   *)
(* A rendered comment body is a sequence of segments standing for their    *)
(* concatenation.  Python indices are kept 0-based as in the source.       *)
(***************************************************************************)
EXTENDS Integers, Sequences, FiniteSets, TLC

\* ------------------------------------------------------------------ bounds
MaxIssues == 2

\* ------------------------------------------------------- values of Python
None == "<None>"
NoLine == [t |-> "none", v |-> 0]
IntLine(n) == [t |-> "int", v |-> n]
\* a JSON string holding the decimal digits of n
StrLine(n) == [t |-> "str", v |-> n]
\* a non-empty JSON string that is not a number
WordLine == [t |-> "word", v |-> 0]

\* bool(x) of a "line" value: None and 0 are falsy, other integers and
\* non-empty strings truthy
LineTruthy(l) == (l.t = "int" /\ l.v # 0) \/ l.t \in {"str", "word"}

\* bool(x) of a string or None
StrTruthy(s) == s # None /\ s # ""

\* ------------------------------------------------------------ text
DOC == "DOC"
DOC_CUT == "DOC[:-1]"
BT == "BACKTICK"
WS == " "
FENCE == <<BT, BT, BT>>
FENCE_JSON == <<BT, BT, BT, "j", "s", "o", "n">>

\* the serialisation of a document that holds a string with two fence markers
\* around the text " 1 " is DOC_HEAD, the string's content, DOC_TAIL
DOC_HEAD == "DOC_HEAD"
DOC_TAIL == "DOC_TAIL"

\* the value of a code_example that holds the fenced text
FencedCode == "[fence] 1 [fence]"

\* symbols that stand for more than one character
MultiChar == {DOC, DOC_HEAD, DOC_TAIL}

\* the symbol left when the last character of a multi-character symbol is cut
CutLast(sym) ==
    CASE sym = DOC -> DOC_CUT
      [] sym = DOC_HEAD -> "DOC_HEAD[:-1]"
      [] sym = DOC_TAIL -> "DOC_TAIL[:-1]"
      [] OTHER -> sym

\* pat occurs in text at 0-based index i
MatchAt(text, pat, i) ==
    /\ i >= 0
    /\ i + Len(pat) <= Len(text)
    /\ \A k \in 1..Len(pat) : text[i + k] = pat[k]

\* pat in text
Contains(text, pat) == \E i \in 0..Len(text) : MatchAt(text, pat, i)

\* str.find(pat, start): lowest index >= start of an occurrence, else -1
Find(text, pat, start) ==
    LET hits == {i \in start..Len(text) : MatchAt(text, pat, i)}
    IN  IF hits = {} THEN -1
        ELSE CHOOSE i \in hits : \A j \in hits : i <= j

\* text[start:end]; a negative end counts characters from the end of the text
Slice(text, start, end) ==
    LET n == Len(text)
    IN  IF end >= 0 THEN SubSeq(text, start + 1, end)
        ELSE IF n = 0 \/ start + 1 > n THEN <<>>
        ELSE IF text[n] \in MultiChar
             THEN Append(SubSeq(text, start + 1, n - 1), CutLast(text[n]))
        ELSE SubSeq(text, start + 1, n - 1)

RECURSIVE LStrip(_)
LStrip(text) ==
    IF text # <<>> /\ Head(text) = WS THEN LStrip(Tail(text)) ELSE text

RECURSIVE RStrip(_)
RStrip(text) ==
    IF text # <<>> /\ text[Len(text)] = WS
    THEN RStrip(SubSeq(text, 1, Len(text) - 1)) ELSE text

\* str.strip()
Strip(text) == RStrip(LStrip(text))

\* some string value of the document holds the fenced text
HasFencedString(d) ==
    \E k \in 1..Len(d.issues) : d.issues[k].code_example = FencedCode

\* json.dumps(d) as a sequence of symbols
Serialise(d) ==
    IF HasFencedString(d)
    THEN <<DOC_HEAD>> \o FENCE \o <<WS, "1", WS>> \o FENCE \o <<DOC_TAIL>>
    ELSE <<DOC>>

\* the JSON document 1
NumberDoc ==
    [type |-> "number", has_issues |-> FALSE, issues |-> <<>>, summary |-> "",
     has_severity |-> FALSE, severity |-> "", positive_notes |-> <<>>]

\* json.loads(text) for a document doc: the text parses iff, whitespace
\* apart, it is exactly the serialisation of the document, or the number 1
json_loads(text, doc) ==
    IF Strip(text) = Serialise(doc) THEN [ok |-> TRUE, value |-> doc]
    ELSE IF Strip(text) = <<"1">> THEN [ok |-> TRUE, value |-> NumberDoc]
    ELSE [ok |-> FALSE, value |-> doc]

\* the text parse_review hands to json.loads
ExtractedText(review_text) ==
    IF Contains(review_text, FENCE_JSON)
    THEN LET start == Find(review_text, FENCE_JSON, 0) + 7
             end == Find(review_text, FENCE, start)
         IN  Strip(Slice(review_text, start, end))
    ELSE IF Contains(review_text, FENCE)
    THEN LET start == Find(review_text, FENCE, 0) + 3
             end == Find(review_text, FENCE, start)
         IN  Strip(Slice(review_text, start, end))
    ELSE review_text

parse_review(review_text, doc) == json_loads(ExtractedText(review_text), doc)

\* ------------------------------------------------------------ rendering
\* {'critical': .., 'high': .., 'medium': .., 'low': ..}.get(severity, default)
Emoji(severity) ==
    CASE severity = "critical" -> ":rotating_light:"
      [] severity = "high" -> ":warning:"
      [] severity = "medium" -> ":zap:"
      [] severity = "low" -> ":information_source:"
      [] OTHER -> ":information_source:"

\* str.upper() on the severity strings
Upper(severity) ==
    CASE severity = "critical" -> "CRITICAL"
      [] severity = "high" -> "HIGH"
      [] severity = "medium" -> "MEDIUM"
      [] severity = "low" -> "LOW"
      [] OTHER -> severity

_inline_comment_body(issue) ==
    <<Emoji(issue.severity), " **", issue.title, "** (", issue.severity,
      ") - *", issue.category, "*\n\n", issue.description, "\n">>
    \o (IF StrTruthy(issue.suggestion)
        THEN <<"\n**Suggestion:** ", issue.suggestion, "\n">> ELSE <<>>)
    \o (IF StrTruthy(issue.code_example)
        THEN <<"\n[fence]swift\n", issue.code_example, "\n[fence]\n">> ELSE <<>>)

RECURSIVE RenderIssues(_)
RenderIssues(issues) ==
    IF issues = <<>> THEN <<>>
    ELSE _inline_comment_body(Head(issues)) \o <<"\n">> \o RenderIssues(Tail(issues))

RECURSIVE RenderNotes(_)
RenderNotes(notes) ==
    IF notes = <<>> THEN <<>>
    ELSE <<"- ", Head(notes), "\n">> \o RenderNotes(Tail(notes))

\* review_data.get('severity', 'low')
GetSeverity(review_data) ==
    IF review_data.has_severity THEN review_data.severity ELSE "low"

\* review_data.get('issues', [])
GetIssues(review_data) ==
    IF review_data.has_issues THEN review_data.issues ELSE <<>>

_review_body_summary(review_data, issues_without_line) ==
    <<"## AI Code Review\n\n**Summary:** ", review_data.summary,
      "\n\n**Overall Severity:** ", Upper(GetSeverity(review_data)), "\n">>
    \o (IF issues_without_line # <<>>
        THEN <<"\n### Issues (no specific line)\n\n">> \o RenderIssues(issues_without_line)
        ELSE <<>>)
    \o (IF review_data.positive_notes # <<>>
        THEN <<"\n### Positive Notes\n\n">> \o RenderNotes(review_data.positive_notes)
        ELSE <<>>)
    \o <<"\n---\n*This review was performed by Claude AI. Please verify all suggestions.*">>

\* the text written to /tmp/review_comment.md
FallbackBody(review_data, review_body, code) ==
    <<"## AI Code Review (fallback - inline review failed)\n\n**Summary:** ",
      review_data.summary, "\n\n**Overall Severity:** ",
      Upper(GetSeverity(review_data)),
      "\n\nSee full details below. (Posting inline comments failed: ", code, ")\n">>
    \o <<"\n\n">> \o review_body

\* ------------------------------------------------------------ mapping
\* i.get('line') and i.get('file')
HasAnchor(i) == LineTruthy(i.line) /\ StrTruthy(i.file)

InlineIssues(issues) == SelectSeq(issues, LAMBDA i : HasAnchor(i))

IssuesWithoutLine(issues) == SelectSeq(issues, LAMBDA i : ~HasAnchor(i))

\* int(issue['line']) for a number or the digits of a number
IntOfLine(l) == l.v

\* int(issue['line']) raises ValueError for a string that is not a number
IntRaises(l) == l.t = "word"

\* the loop over inline_issues raises
CommentsRaise(inline_issues) ==
    \E k \in 1..Len(inline_issues) : IntRaises(inline_issues[k].line)

RECURSIVE CommentsPayload_no_skip(_)
CommentsPayload_no_skip(inline_issues) ==
    IF inline_issues = <<>> THEN <<>>
    ELSE LET issue == Head(inline_issues)
         IN  <<[path |-> issue.file, line |-> IntOfLine(issue.line), side |-> "RIGHT",
                body |-> _inline_comment_body(issue)]>>
             \o CommentsPayload_no_skip(Tail(inline_issues))

RECURSIVE CommentsPayload(_)
CommentsPayload(inline_issues) ==
    IF inline_issues = <<>> THEN <<>>
    ELSE LET issue == Head(inline_issues)
             line == IntOfLine(issue.line)
         IN  IF line < 1 THEN CommentsPayload(Tail(inline_issues))
             ELSE <<[path |-> issue.file, line |-> line, side |-> "RIGHT",
                     body |-> _inline_comment_body(issue)]>>
                  \o CommentsPayload(Tail(inline_issues))

\* the issues the loop has handled when int(issue['line']) first raises
RECURSIVE BeforeRaise(_)
BeforeRaise(inline_issues) ==
    IF inline_issues = <<>> \/ IntRaises(Head(inline_issues).line) THEN <<>>
    ELSE <<Head(inline_issues)>> \o BeforeRaise(Tail(inline_issues))

\* payload of the review request; commit_id is set only for a non-empty head_sha
Payload(review_body, comments_payload, head_sha) ==
    [body |-> review_body, event |-> "COMMENT", comments |-> comments_payload,
     has_commit_id |-> StrTruthy(head_sha),
     commit_id |-> IF StrTruthy(head_sha) THEN head_sha ELSE None]

\* [i for i in issues if i.get('severity') == 'critical']
CriticalIssues(issues) == SelectSeq(issues, LAMBDA i : i.severity = "critical")

\* ------------------------------------------------------------ collection
\* f.endswith(suffix), a path being a stem and an extension
EndsWith(f, suffix) == f.ext = suffix

\* the list get_changed_files returns for the lines git printed
get_changed_files(lines) ==
    SelectSeq(lines, LAMBDA f : EndsWith(f, ".swift") \/ EndsWith(f, ".md"))

RECURSIVE FilesContext_unfiltered(_, _)
FilesContext_unfiltered(changed_files, file_contents) ==
    IF changed_files = <<>> THEN <<>>
    ELSE LET f == Head(changed_files)
         IN  <<[filepath |-> f, content |-> file_contents[f]]>>
             \o FilesContext_unfiltered(Tail(changed_files), file_contents)

\* the entries of files_context: the files whose content is truthy
RECURSIVE FilesContext(_, _)
FilesContext(changed_files, file_contents) ==
    IF changed_files = <<>> THEN <<>>
    ELSE LET f == Head(changed_files)
         IN  (IF StrTruthy(file_contents[f])
              THEN <<[filepath |-> f, content |-> file_contents[f]]>> ELSE <<>>)
             \o FilesContext(Tail(changed_files), file_contents)

\* ------------------------------------------------------------ inputs
Path(stem, ext) == [stem |-> stem, ext |-> ext]
a_swift == Path("a", ".swift")
b_md == Path("b", ".md")
c_py == Path("c", ".py")

\* result.stdout.strip().split('\n'): empty output splits into one empty line
GitOutputs ==
    {<<Path("", "")>>, <<c_py>>, <<a_swift>>, <<a_swift, c_py, b_md>>}

\* what get_file_content returns: None for an unreadable file
Contents == {None, "", "src"}

Range(seq) == {seq[k] : k \in 1..Len(seq)}

IssueFiles == {"", "a.swift"}
IssueLines == {NoLine, IntLine(0), IntLine(-1), IntLine(5), StrLine(7), WordLine}
IssueSeverities == {"critical", "low"}
IssueShapes == IssueFiles \X IssueLines \X IssueSeverities

TitleOf(k) ==
    CASE k = 1 -> "t1" [] k = 2 -> "t2" [] k = 3 -> "t3" [] OTHER -> "t4"

DescriptionOf(k) ==
    CASE k = 1 -> "d1" [] k = 2 -> "d2" [] k = 3 -> "d3" [] OTHER -> "d4"

\* the k-th issue of a list: odd positions carry a suggestion, even ones a
\* code example
MkIssue(k, shape) ==
    [file |-> shape[1], line |-> shape[2], severity |-> shape[3],
     category |-> "security", title |-> TitleOf(k),
     description |-> DescriptionOf(k),
     suggestion |-> IF k % 2 = 1 THEN "fix" ELSE "",
     code_example |-> IF k % 2 = 0 THEN "code" ELSE ""]

IssueLists ==
    UNION {{[k \in 1..n |-> MkIssue(k, sh[k])] : sh \in [1..n -> IssueShapes]}
           : n \in 0..MaxIssues}

\* a JSON object as the model writes it
ObjectDoc(has_issues, issues, has_severity, severity, notes) ==
    [type |-> "object", has_issues |-> has_issues, issues |-> issues,
     summary |-> "sum", has_severity |-> has_severity, severity |-> severity,
     positive_notes |-> notes]

\* a JSON document whose top-level value is an array
ArrayDoc ==
    [type |-> "array", has_issues |-> FALSE, issues |-> <<>>, summary |-> "",
     has_severity |-> FALSE, severity |-> "", positive_notes |-> <<>>]

NoReview ==
    [type |-> "none", has_issues |-> FALSE, issues |-> <<>>, summary |-> "",
     has_severity |-> FALSE, severity |-> "", positive_notes |-> <<>>]

IssueDocs ==
    {ObjectDoc(TRUE, is, hs, IF hs THEN "critical" ELSE "", <<"n1">>) :
        is \in IssueLists, hs \in BOOLEAN}

SampleIssues ==
    <<MkIssue(1, <<"a.swift", IntLine(5), "low">>),
      MkIssue(2, <<"", NoLine, "critical">>)>>

\* issues whose severity and category are outside the enumerations
UnknownEnumIssues ==
    <<[MkIssue(1, <<"a.swift", IntLine(5), "urgent">>) EXCEPT !.category = "style"],
      [MkIssue(2, <<"", NoLine, "blocker">>) EXCEPT !.category = "style"]>>

\* an issue whose code_example holds a fenced text
FencedIssues ==
    <<[MkIssue(1, <<"a.swift", IntLine(5), "low">>) EXCEPT !.code_example = FencedCode]>>

SampleDocs ==
    {ArrayDoc,
     ObjectDoc(FALSE, <<>>, TRUE, "high", <<>>),
     ObjectDoc(TRUE, <<>>, TRUE, "low", <<>>),
     ObjectDoc(TRUE, SampleIssues, TRUE, "medium", <<"n1", "n2">>),
     ObjectDoc(TRUE, UnknownEnumIssues, TRUE, "low", <<>>),
     ObjectDoc(TRUE, FencedIssues, TRUE, "low", <<>>)}

\* the shapes of the raw model text
Templates ==
    {<<DOC>>,
     <<>>,
     <<"x">>,
     <<WS, DOC, WS>>,
     FENCE_JSON \o <<WS, DOC, WS>> \o FENCE,
     <<"x", WS>> \o FENCE_JSON \o <<DOC>> \o FENCE \o <<WS, "x">>,
     FENCE \o <<WS, DOC, WS>> \o FENCE,
     FENCE \o <<"x">> \o FENCE \o <<WS>> \o FENCE_JSON \o <<DOC>> \o FENCE,
     FENCE_JSON \o <<"x">> \o FENCE,
     FENCE \o <<"x">> \o FENCE,
     FENCE_JSON \o <<DOC, "x">>,
     FENCE_JSON \o <<DOC>>,
     FENCE \o <<DOC, WS, WS>>,
     <<"x", DOC>>}

\* the text of a shape for a document: DOC replaced by its serialisation
RECURSIVE Expand(_, _)
Expand(template, d) ==
    IF template = <<>> THEN <<>>
    ELSE (IF Head(template) = DOC THEN Serialise(d) ELSE <<Head(template)>>)
         \o Expand(Tail(template), d)

Response(text, d) == [text |-> text, doc |-> d]

SampleResponses == {Response(Expand(t, d), d) : t \in Templates, d \in SampleDocs}

Responses == SampleResponses \cup {Response(<<DOC>>, d) : d \in IssueDocs}

Tokens == {"", "ghp_token"}
HeadShas == {"", "sha_env"}
GhViewOutputs == {"", "sha_pr"}

\* what urlopen does: a response with a status, an HTTPError with a code, or
\* a URLError when the platform cannot be reached
UrlopenOutcomes == {"200", "204", "422", "URLError"}
SuccessStatuses == {"200", "204"}
HTTPErrorCodes == {"422"}

\* ------------------------------------------------------------ state
VARIABLES
    pc,                   \* position of the run in main / post_review_comment
    changed_files,        \* main: changed_files
    file_contents,        \* main: file_contents
    prompt,               \* review_code: what was sent to the review service
    doc,                  \* the JSON value the review service serialised
    review_text,          \* main: review_text
    review_data,          \* main: review_data
    issues,               \* post_review_comment: issues
    token,                \* post_review_comment: token
    head_sha,             \* post_review_comment: head_sha
    inline_issues,        \* post_review_comment: inline_issues
    issues_without_line,  \* post_review_comment: issues_without_line
    review_body,          \* post_review_comment: review_body
    comments_payload,     \* post_review_comment: comments_payload
    payload,              \* post_review_comment: payload
    http_status,          \* outcome of urlopen
    requests,             \* payloads POSTed to the reviews endpoint
    comment_file,         \* content of /tmp/review_comment.md
    comments_posted,      \* bodies the platform stored as PR comments
    calls,                \* external commands and services called, in order
    stdout,               \* lines printed
    raw_out,              \* the raw response text printed on a parse failure
    exit_status,          \* process exit status, -1 while running
    uncaught              \* exception that ended the run with a traceback

main_vars == <<changed_files, file_contents, prompt, doc, review_text, review_data>>
post_vars == <<issues, token, head_sha>>
build_vars == <<inline_issues, issues_without_line, review_body, comments_payload, payload>>
net_vars == <<http_status, requests, comment_file, comments_posted>>
vars == <<pc, main_vars, post_vars, build_vars, net_vars, calls, stdout, raw_out,
          exit_status, uncaught>>

EmptyDict == [f \in {} |-> None]
NoPrompt == [files_context |-> <<>>, diff |-> ""]
NoPayload ==
    [body |-> <<>>, event |-> "", comments |-> <<>>, has_commit_id |-> FALSE,
     commit_id |-> None]

Init ==
    /\ pc = "start"
    /\ changed_files = <<>>
    /\ file_contents = EmptyDict
    /\ prompt = NoPrompt
    /\ doc = NoReview
    /\ review_text = <<>>
    /\ review_data = NoReview
    /\ issues = <<>>
    /\ token = ""
    /\ head_sha = ""
    /\ inline_issues = <<>>
    /\ issues_without_line = <<>>
    /\ review_body = <<>>
    /\ comments_payload = <<>>
    /\ payload = NoPayload
    /\ http_status = ""
    /\ requests = <<>>
    /\ comment_file = <<>>
    /\ comments_posted = <<>>
    /\ calls = <<>>
    /\ stdout = <<>>
    /\ raw_out = <<>>
    /\ exit_status = -1
    /\ uncaught = ""

\* the run ends: sys.exit(status), or main returns (status 0)
Exit(status) ==
    /\ pc' = "done"
    /\ exit_status' = status
    /\ uncaught' = ""

\* an exception nothing catches: traceback, exit status 1
Raise(exc) ==
    /\ pc' = "done"
    /\ exit_status' = 1
    /\ uncaught' = exc

\* the files and contents for which every response is explored; for the
\* others the responses are the sample ones
DefaultFiles(cf, fc) == cf = <<a_swift>> /\ fc[a_swift] = "src"

ResponsesFor(cf, fc) == IF DefaultFiles(cf, fc) THEN Responses ELSE SampleResponses

\* not changed_files
NothingToReview_always_false(cf) == FALSE

NothingToReview(cf) == cf = <<>>

\* the branch of the try statement around urlopen that an outcome takes
SubmitBranch_raise_unexpected(outcome) ==
    IF outcome \in {"200", "201"} THEN "posted"
    ELSE IF outcome \in SuccessStatuses \cup HTTPErrorCodes THEN "HTTPError"
    ELSE "URLError"

SubmitBranch(outcome) ==
    IF outcome \in {"200", "201"} THEN "posted"
    ELSE IF outcome \in SuccessStatuses THEN "unexpected"
    ELSE IF outcome \in HTTPErrorCodes THEN "HTTPError"
    ELSE "URLError"

\* main, up to the loading of the file contents
main_collect ==
    /\ pc = "start"
    /\ \E lines \in GitOutputs :
        LET cf == get_changed_files(lines)
        IN  /\ calls' = calls \o <<"git diff", "git diff --name-only">>
            /\ changed_files' = cf
            /\ IF NothingToReview(cf)
               THEN /\ stdout' = stdout \o <<"Starting AI code review", "No Swift files changed, skipping review">>
                    /\ file_contents' = file_contents
                    /\ Exit(0)
               ELSE /\ stdout' = stdout \o <<"Starting AI code review", "Reviewing file(s)">>
                    /\ \E fc \in [Range(cf) -> Contents] : file_contents' = fc
                    /\ pc' = "request"
                    /\ UNCHANGED <<exit_status, uncaught>>
    /\ UNCHANGED <<prompt, doc, review_text, review_data, post_vars, build_vars,
                   net_vars, raw_out>>

review_code_raises_swallowed ==
    /\ pc' = "parse"
    /\ uncaught' = "APIError"
    /\ UNCHANGED <<exit_status, doc, review_text>>

\* client.messages.create raises: nothing in review_code or main catches it
review_code_raises ==
    /\ Raise("APIError")
    /\ UNCHANGED <<doc, review_text>>

\* review_code: one call of the review service, which answers or fails
review_code ==
    /\ pc = "request"
    /\ calls' = Append(calls, "anthropic messages.create")
    /\ prompt' = [files_context |-> FilesContext(changed_files, file_contents),
                  diff |-> "diff"]
    /\ \/ review_code_raises
       \/ /\ \E r \in ResponsesFor(changed_files, file_contents) :
                /\ doc' = r.doc
                /\ review_text' = r.text
          /\ pc' = "parse"
          /\ UNCHANGED <<exit_status, uncaught>>
    /\ UNCHANGED <<changed_files, file_contents, review_data, post_vars, build_vars,
                   net_vars, stdout, raw_out>>

\* main: parse_review and its JSONDecodeError handler
main_parse ==
    /\ pc = "parse"
    /\ LET r == parse_review(review_text, doc)
       IN  IF r.ok
           THEN /\ review_data' = r.value
                /\ pc' = "post"
                /\ UNCHANGED <<stdout, raw_out, exit_status, uncaught>>
           ELSE /\ stdout' = stdout \o <<"Failed to parse review", "Raw response:", "<review_text>">>
                /\ raw_out' = review_text
                /\ Exit(1)
                /\ UNCHANGED review_data
    /\ UNCHANGED <<changed_files, file_contents, prompt, doc, review_text, post_vars,
                   build_vars, net_vars, calls>>

TokenMissing_never(tok) == FALSE

\* not token
TokenMissing(tok) == ~StrTruthy(tok)

\* post_review_comment, up to the resolution of the head commit
post_enter ==
    /\ pc = "post"
    /\ IF review_data.type # "object"
       THEN /\ Raise("AttributeError")
            /\ UNCHANGED <<post_vars, calls, stdout>>
       ELSE \E tok \in Tokens, env_sha \in HeadShas :
            /\ issues' = GetIssues(review_data)
            /\ token' = tok
            /\ IF TokenMissing(tok)
               THEN /\ head_sha' = env_sha
                    /\ stdout' = Append(stdout, "Warning: GITHUB_TOKEN not set, cannot post review")
                    /\ calls' = calls
                    /\ Exit(0)
               ELSE /\ IF StrTruthy(env_sha)
                       THEN /\ head_sha' = env_sha
                            /\ calls' = calls
                            /\ stdout' = stdout
                       ELSE \E out \in GhViewOutputs :
                            /\ calls' = Append(calls, "gh pr view")
                            /\ head_sha' = IF StrTruthy(out) THEN out ELSE None
                            /\ stdout' = IF StrTruthy(out) THEN stdout
                                         ELSE Append(stdout, "Warning: Could not get head SHA for review")
                    /\ pc' = "build"
                    /\ UNCHANGED <<exit_status, uncaught>>
    /\ UNCHANGED <<main_vars, build_vars, net_vars, raw_out>>

\* post_review_comment: the split of the issues and the review payload
post_build ==
    /\ pc = "build"
    /\ inline_issues' = InlineIssues(issues)
    /\ issues_without_line' = IssuesWithoutLine(issues)
    /\ review_body' = _review_body_summary(review_data, issues_without_line')
    /\ IF CommentsRaise(inline_issues')
       THEN /\ Raise("ValueError")
            /\ comments_payload' = CommentsPayload(BeforeRaise(inline_issues'))
            /\ UNCHANGED payload
       ELSE /\ comments_payload' = CommentsPayload(inline_issues')
            /\ payload' = Payload(review_body', comments_payload', head_sha)
            /\ pc' = "submit"
            /\ UNCHANGED <<exit_status, uncaught>>
    /\ UNCHANGED <<main_vars, post_vars, net_vars, calls, stdout, raw_out>>

\* post_review_comment: the review request
post_submit ==
    /\ pc = "submit"
    /\ calls' = Append(calls, "POST reviews")
    /\ requests' = Append(requests, payload)
    /\ \E outcome \in UrlopenOutcomes :
        /\ http_status' = outcome
        /\ CASE SubmitBranch(outcome) = "posted" ->
                /\ stdout' = Append(stdout, "Review posted with inline comment(s)")
                /\ pc' = "report"
                /\ UNCHANGED <<exit_status, uncaught>>
             [] SubmitBranch(outcome) = "unexpected" ->
                /\ stdout' = Append(stdout, "Unexpected status")
                /\ pc' = "report"
                /\ UNCHANGED <<exit_status, uncaught>>
             [] SubmitBranch(outcome) = "HTTPError" ->
                /\ stdout' = stdout \o <<"Failed to post review", "<err_body>">>
                /\ pc' = "fallback"
                /\ UNCHANGED <<exit_status, uncaught>>
             [] OTHER ->
                /\ stdout' = stdout
                /\ Raise("URLError")
    /\ UNCHANGED <<main_vars, post_vars, build_vars, comment_file, comments_posted,
                   raw_out>>

\* post_review_comment: the HTTPError handler; gh may fail to post the comment
post_fallback ==
    /\ pc = "fallback"
    /\ comment_file' = FallbackBody(review_data, review_body, http_status)
    /\ calls' = Append(calls, "gh pr comment")
    /\ \E posted \in BOOLEAN :
        comments_posted' = IF posted THEN Append(comments_posted, comment_file')
                           ELSE comments_posted
    /\ pc' = "report"
    /\ UNCHANGED <<main_vars, post_vars, build_vars, http_status, requests, stdout,
                   raw_out, exit_status, uncaught>>

\* post_review_comment: the exit signal, then main returns
post_report ==
    /\ pc = "report"
    /\ IF CriticalIssues(issues) # <<>>
       THEN /\ stdout' = Append(stdout, "Found critical issue(s)")
            /\ Exit(1)
       ELSE /\ stdout' = Append(stdout, "Review complete")
            /\ Exit(0)
    /\ UNCHANGED <<main_vars, post_vars, build_vars, net_vars, calls, raw_out>>

Next ==
    \/ main_collect
    \/ review_code
    \/ main_parse
    \/ post_enter
    \/ post_build
    \/ post_submit
    \/ post_fallback
    \/ post_report

Spec == Init /\ [][Next]_vars

\* ------------------------------------------------------------ properties
\* b occurs in the text s as a run of consecutive segments
InText(b, s) == \E i \in 0..Len(s) : MatchAt(s, b, i)

Count(seq, x) == Cardinality({k \in 1..Len(seq) : seq[k] = x})

\* the rendered body of the issue is the body of an inline comment
InInlineComments(issue) ==
    \E k \in 1..Len(comments_payload) :
        comments_payload[k].body = _inline_comment_body(issue)

\* the publisher went down one of its two paths to the exit signal
PublisherFinished == pc = "report"

\* C1 (as stated): on every path of post_review_comment every issue has its
\* rendered body in the inline comments, the summary body or the fallback body
C1_EveryIssueRendered ==
    PublisherFinished =>
        \A k \in 1..Len(issues) :
            \/ InInlineComments(issues[k])
            \/ InText(_inline_comment_body(issues[k]), review_body)
            \/ InText(_inline_comment_body(issues[k]), comment_file)

\* C2 (as stated): the fallback comment holds the summary, the overall
\* severity and the title and description of every issue
C2_FallbackHoldsEveryIssue ==
    (pc = "report" /\ comment_file # <<>>) =>
        /\ InText(<<review_data.summary>>, comment_file)
        /\ InText(<<Upper(GetSeverity(review_data))>>, comment_file)
        /\ \A k \in 1..Len(issues) :
            /\ InText(<<issues[k].title>>, comment_file)
            /\ InText(<<issues[k].description>>, comment_file)

\* the model response was normalized into a review result
Normalized == review_data.type = "object"

\* C3 (as stated): a run whose response was normalized exits with 1 if some
\* issue is critical and with 0 if none is
C3_ExitFollowsCritical ==
    (pc = "done" /\ Normalized) =>
        exit_status = (IF CriticalIssues(GetIssues(review_data)) # <<>> THEN 1 ELSE 0)

\* file is non-empty and line is a positive integer (as a number or as the
\* digits of one)
ValidAnchor(i) == StrTruthy(i.file) /\ i.line.t \in {"int", "str"} /\ i.line.v >= 1

\* C4 (as stated): an issue has an inline comment iff its file is non-empty
\* and its line a positive integer, and is in the body-only set otherwise
C4_PartitionTotalExclusive ==
    pc \in {"submit", "fallback", "report"} =>
        \A k \in 1..Len(issues) :
            /\ InInlineComments(issues[k]) <=> ValidAnchor(issues[k])
            /\ (issues[k] \in Range(issues_without_line)) <=> ~ValidAnchor(issues[k])

\* C5: at most one review submission and one fallback comment; the fallback
\* directly follows a rejected submission and no submission follows it
C5_OneSubmissionOneFallback ==
    /\ Count(calls, "POST reviews") <= 1
    /\ Count(calls, "gh pr comment") <= 1
    /\ Len(requests) = Count(calls, "POST reviews")
    /\ Len(comments_posted) <= Count(calls, "gh pr comment")
    /\ \A k \in 1..Len(calls) :
        calls[k] = "gh pr comment" =>
            /\ k > 1 /\ calls[k - 1] = "POST reviews"
            /\ http_status \in HTTPErrorCodes
            /\ \A j \in (k + 1)..Len(calls) : calls[j] # "POST reviews"

C5_Witness ==
    /\ pc = "done"
    /\ Count(calls, "POST reviews") = 1
    /\ Len(comments_posted) = 1
    /\ http_status \in HTTPErrorCodes

\* the run obtained a model response
GotResponse ==
    /\ "anthropic messages.create" \in Range(calls)
    /\ pc \notin {"start", "request"}
    /\ uncaught # "APIError"

ReviewAccepted == requests # <<>> /\ http_status \in SuccessStatuses
FallbackPosted == comments_posted # <<>>
RawPrinted == "Raw response:" \in Range(stdout) /\ raw_out = review_text
ReportedFailure ==
    ~ReviewAccepted /\ ~FallbackPosted /\ exit_status # 0 /\ RawPrinted

\* C6 (as stated): a run that obtained a response ends with the review
\* accepted, or a fallback comment posted, or nothing posted together with a
\* non-zero exit status and the raw output printed; exactly one of the three
C6_OneOfThreeOutcomes ==
    (pc = "done" /\ GotResponse) =>
        /\ ReviewAccepted \/ FallbackPosted \/ ReportedFailure
        /\ ~(ReviewAccepted /\ FallbackPosted)

\* a fenced block: an opening fence, optionally tagged, and a later closing
\* fence; its content parses as JSON
HasValidFencedBlock(text, d) ==
    \E i \in 0..Len(text), j \in 0..Len(text) :
        /\ MatchAt(text, FENCE, i) /\ MatchAt(text, FENCE, j)
        /\ \/ j >= i + 3 /\ json_loads(SubSeq(text, i + 4, j), d).ok
           \/ /\ MatchAt(text, FENCE_JSON, i) /\ j >= i + 7
              /\ json_loads(SubSeq(text, i + 8, j), d).ok

\* the raw text holds no parseable JSON document
NoParseableJson(text, d) ==
    ~json_loads(text, d).ok /\ ~HasValidFencedBlock(text, d)

ParseFailureReported ==
    /\ RawPrinted
    /\ exit_status = 1
    /\ uncaught = ""
    /\ requests = <<>>
    /\ comments_posted = <<>>
    /\ "gh pr comment" \notin Range(calls)

\* C7 (as stated): a response without a parseable JSON document ends the run
\* with the raw text printed, status 1, nothing posted and no uncaught error
C7_NoJsonIsParseFailure ==
    (GotResponse /\ NoParseableJson(review_text, doc)) =>
        /\ pc \in {"parse", "done"}
        /\ pc = "done" => ParseFailureReported

\* the response is well-formed JSON without the required structure
LacksStructure == review_data.type = "array" \/ (review_data.type = "object" /\ ~review_data.has_issues)

\* C8 (as stated): well-formed JSON without an issues list, or whose top-level
\* value is not an object, is reported like malformed JSON
C8_MissingStructureIsParseFailure ==
    (pc = "done" /\ LacksStructure) => ParseFailureReported

\* C9 (as stated): when the review submission fails for any reason the
\* fallback comment is posted and the run reaches the exit signal
C9_SubmitFailureFallsBack ==
    (pc = "done" /\ requests # <<>> /\ http_status \notin SuccessStatuses) =>
        /\ "gh pr comment" \in Range(calls)
        /\ uncaught = ""
        /\ \/ "Review complete" \in Range(stdout)
           \/ "Found critical issue(s)" \in Range(stdout)

\* C10: with no changed file of interest main ends at once with status 0 and
\* calls neither the review service nor the platform
C10_NoFilesNoCalls ==
    (pc # "start" /\ changed_files = <<>>) =>
        /\ pc = "done"
        /\ exit_status = 0
        /\ uncaught = ""
        /\ calls = <<"git diff", "git diff --name-only">>
        /\ requests = <<>>
        /\ comments_posted = <<>>
        /\ review_text = <<>>

C10_Witness ==
    pc = "done" /\ changed_files = <<>> /\ exit_status = 0 /\ Len(calls) = 2

\* the closed enumerations of the response format
SeverityEnum == {"critical", "high", "medium", "low"}
CategoryEnum ==
    {"security", "swift-best-practices", "iso-compliance", "testing", "code-quality"}

OutsideEnums(i) == i.severity \notin SeverityEnum \/ i.category \notin CategoryEnum

\* the rendered body of the issue is in one of the three outputs
Rendered(i) ==
    \/ InInlineComments(i)
    \/ InText(_inline_comment_body(i), review_body)
    \/ InText(_inline_comment_body(i), comment_file)

\* C11 (as stated): an issue whose severity or category is outside the
\* enumerations is never rendered into an inline comment, the summary body or
\* the fallback body
C11_UnknownEnumNeverRendered ==
    \A k \in 1..Len(issues) : OutsideEnums(issues[k]) => ~Rendered(issues[k])

\* the document wrapped in a fenced block tagged as JSON, without and with
\* surrounding prose
TaggedWraps(J) ==
    {FENCE_JSON \o <<WS>> \o J \o <<WS>> \o FENCE,
     <<"x", WS>> \o FENCE_JSON \o J \o FENCE \o <<WS, "x">>}

\* main went past parse_review
Parsed == GotResponse /\ pc # "parse"
ParseFailed == "Failed to parse review" \in Range(stdout)

\* C12 (as stated): parse_review of a document wrapped in a fenced block tagged
\* as JSON gives what parse_review of the document alone gives, also for a
\* document with a fence marker inside a string
C12_TaggedWrapSameAsBare ==
    (Parsed /\ review_text \in TaggedWraps(Serialise(doc))) =>
        LET bare == parse_review(Serialise(doc), doc)
        IN  /\ ParseFailed <=> ~bare.ok
            /\ bare.ok => review_data = bare.value

\* post_review_comment read its environment: it is past the credential check
PostEntered ==
    review_data.type = "object" /\ pc \notin {"start", "request", "parse", "post"}

QueryMade == "gh pr view" \in Range(calls)
CommitSupplied == head_sha = "sha_env"

\* the resolution query precedes every review submission
QueryBeforeSubmit ==
    \A k \in 1..Len(calls) : \A j \in 1..Len(calls) :
        (calls[k] = "gh pr view" /\ calls[j] = "POST reviews") => k < j

\* a submitted payload carries commit_id iff a non-empty reference was
\* supplied or resolved
CommitIdIffKnown ==
    \A k \in 1..Len(requests) :
        /\ requests[k].has_commit_id <=> head_sha \in {"sha_env", "sha_pr"}
        /\ requests[k].has_commit_id => requests[k].commit_id = head_sha

\* C13 (as stated): the resolution query is made iff no commit reference was
\* supplied, and before the submission; the payload carries commit_id iff a
\* reference was supplied or resolved; without one the review is still
\* submitted after a warning
C13_QueryIffNotSupplied ==
    PostEntered =>
        /\ QueryMade <=> ~CommitSupplied
        /\ QueryBeforeSubmit
        /\ CommitIdIffKnown
        /\ (head_sha = None /\ pc = "done") =>
            /\ "Warning: Could not get head SHA for review" \in Range(stdout)
            /\ requests # <<>>

ReviewRequested == "anthropic messages.create" \in Range(calls)

\* the file has an entry in the context of the review request
InContext(f) ==
    \E k \in 1..Len(prompt.files_context) : prompt.files_context[k].filepath = f

\* C14: whatever files are unreadable, the run goes on to the review request;
\* an unreadable file has the content None and no entry in the request's
\* context, and each readable file with content has its entry
C14_UnreadableFilesLeftOut ==
    (pc # "start" /\ changed_files # <<>>) =>
        /\ DOMAIN file_contents = Range(changed_files)
        /\ pc = "request" \/ ReviewRequested
        /\ pc = "request" => (uncaught = "" /\ exit_status = -1)
        /\ ReviewRequested =>
            \A f \in Range(changed_files) :
                /\ file_contents[f] = None => ~InContext(f)
                /\ StrTruthy(file_contents[f]) =>
                    [filepath |-> f, content |-> file_contents[f]]
                        \in Range(prompt.files_context)

C14_Witness ==
    /\ ReviewRequested
    /\ pc = "parse"
    /\ \E f \in Range(changed_files), g \in Range(changed_files) :
        /\ file_contents[f] = None
        /\ file_contents[g] = "src"
        /\ ~InContext(f) /\ InContext(g)

\* the stage an external call belongs to: collect 1, request 2, publish 4
\* (resolution, submission, fallback comment)
CallRank(c) ==
    CASE c = "git diff" -> 1
      [] c = "git diff --name-only" -> 2
      [] c = "anthropic messages.create" -> 3
      [] c = "gh pr view" -> 4
      [] c = "POST reviews" -> 5
      [] c = "gh pr comment" -> 6
      [] OTHER -> 0

\* the exit-status report of post_review_comment was printed
Reported ==
    \/ "Review complete" \in Range(stdout)
    \/ "Found critical issue(s)" \in Range(stdout)

\* the publish step finished: the submission was answered with a status, or
\* the fallback comment command ran after a rejection
PublishFinished ==
    /\ "POST reviews" \in Range(calls)
    /\ \/ http_status \in SuccessStatuses
       \/ (http_status \in HTTPErrorCodes /\ "gh pr comment" \in Range(calls))

\* C15: the stages occur in the order collect, request, normalize, map,
\* publish, report and none twice: the review service is called at most once
\* and only for a non-empty changed-file list, nothing is submitted or
\* posted unless normalization succeeded, and the report follows the publish
\* step
C15_StageOrder ==
    /\ \A k \in 1..Len(calls) : \A j \in 1..Len(calls) :
        k < j => CallRank(calls[k]) < CallRank(calls[j])
    /\ \A k \in 1..Len(stdout) : \A j \in 1..Len(stdout) :
        (k # j /\ stdout[k] = stdout[j]) => stdout[k] = "<never>"
    /\ ReviewRequested => changed_files # <<>>
    /\ (\E k \in 1..Len(calls) : CallRank(calls[k]) >= 4) =>
        (review_data.type = "object" /\ ~ParseFailed)
    /\ (requests # <<>> \/ comments_posted # <<>>) =>
        (review_data.type = "object" /\ payload # NoPayload)
    /\ Reported => (PublishFinished /\ pc = "done")
    /\ pc \in {"fallback", "report"} => "POST reviews" \in Range(calls)

C15_Witness ==
    /\ pc = "done" /\ Reported
    /\ calls = <<"git diff", "git diff --name-only", "anthropic messages.create",
                 "gh pr view", "POST reviews", "gh pr comment">>

\* the text holds a fenced block tagged as JSON: an opening fence with the tag
\* and a closing fence after it
HasTaggedBlock(text) ==
    /\ Contains(text, FENCE_JSON)
    /\ Find(text, FENCE, Find(text, FENCE_JSON, 0) + 7) # -1

\* the text holds a fenced block: an opening fence and a closing fence after it
HasFencedBlock(text) ==
    /\ Contains(text, FENCE)
    /\ Find(text, FENCE, Find(text, FENCE, 0) + 3) # -1

\* the document the stated precedence selects: the text between the opening
\* fence and the next closing fence of the first tagged block, else of the
\* first fenced block, else the whole text
SelectedText(text) ==
    IF HasTaggedBlock(text)
    THEN LET i == Find(text, FENCE_JSON, 0) + 7
         IN  SubSeq(text, i + 1, Find(text, FENCE, i))
    ELSE IF HasFencedBlock(text)
    THEN LET i == Find(text, FENCE, 0) + 3
         IN  SubSeq(text, i + 1, Find(text, FENCE, i))
    ELSE text

\* C16 (as stated): parse_review parses the content of the first fenced block
\* tagged as JSON, else of the first fenced block, else the whole text
C16_ExtractionPrecedence ==
    Parsed =>
        LET selected == json_loads(SelectedText(review_text), doc)
        IN  /\ ParseFailed <=> ~selected.ok
            /\ selected.ok => review_data = selected.value

\* C17: a failure of the review-service call ends the run with status 1;
\* nothing is normalized, resolved, submitted or posted
C17_ReviewFailureIsFatal ==
    uncaught = "APIError" =>
        /\ pc = "done"
        /\ exit_status = 1
        /\ review_text = <<>> /\ review_data = NoReview
        /\ ~ParseFailed /\ raw_out = <<>>
        /\ calls = <<"git diff", "git diff --name-only", "anthropic messages.create">>
        /\ requests = <<>>
        /\ comments_posted = <<>>

C17_Witness ==
    /\ pc = "done" /\ uncaught = "APIError" /\ exit_status = 1
    /\ calls[Len(calls)] = "anthropic messages.create"

TokenWarning == "Warning: GITHUB_TOKEN not set, cannot post review"

\* C18: with GITHUB_TOKEN unset or empty post_review_comment returns after a
\* warning without any platform call (no resolution, no submission, no
\* fallback comment), and the review result and its issue list are unchanged
C18_NoTokenNoPlatformCall ==
    (PostEntered /\ token = "") =>
        /\ pc = "done" /\ exit_status = 0 /\ uncaught = ""
        /\ stdout[Len(stdout)] = TokenWarning
        /\ \A k \in 1..Len(calls) : CallRank(calls[k]) \in 1..3
        /\ requests = <<>> /\ payload = NoPayload
        /\ comment_file = <<>> /\ comments_posted = <<>>
        /\ review_data = parse_review(review_text, doc).value
        /\ issues = GetIssues(review_data)

C18_Witness ==
    /\ pc = "done" /\ token = "" /\ review_data.type = "object"
    /\ issues # <<>>
    /\ TokenWarning \in Range(stdout)
    /\ Len(calls) = 3

\* the position in the issue list of the issue a comment record renders
IssueIndex(c) ==
    CHOOSE i \in 1..Len(issues) :
        c.body = _inline_comment_body(issues[i]) /\ c.path = issues[i].file

\* the issues with a non-empty file and a non-empty line value
AnchoredCount ==
    Cardinality({i \in 1..Len(issues) :
                    StrTruthy(issues[i].file) /\ issues[i].line.t # "none"})

\* C19: in a submitted payload every inline comment record has a non-empty
\* path, an integer line of at least 1 and side RIGHT; the records are in the
\* order of their issues and no more than the issues with a file and a line
C19_InlineRecordsWellFormed ==
    \A r \in 1..Len(requests) :
        LET cs == requests[r].comments
        IN  /\ \A k \in 1..Len(cs) :
                /\ StrTruthy(cs[k].path)
                /\ cs[k].line \in Int /\ cs[k].line >= 1
                /\ cs[k].side = "RIGHT"
                /\ \E i \in 1..Len(issues) :
                    cs[k].body = _inline_comment_body(issues[i]) /\ cs[k].path = issues[i].file
            /\ \A k \in 1..Len(cs) : \A j \in 1..Len(cs) :
                k < j => IssueIndex(cs[k]) < IssueIndex(cs[j])
            /\ Len(cs) <= AnchoredCount

C19_Witness ==
    /\ requests # <<>>
    /\ Len(requests[1].comments) = 2
    /\ requests[1].comments[1].line # requests[1].comments[2].line

====
